---- MODULE Spec2Model ----
(***************************************************************************)
(* Topic evolution and analytics engine of osint-mcp.                      *)
(*                                                                         *)
(* The Bucket Aggregator (scripts/topic_evolution/compute_evolution.py)    *)
(* turns raw posts and their topic assignments into hourly rows of the     *)
(* topic_evolution table; the Analytics Query Service                      *)
(* (osint-api/app/repositories/topic_analytics.py) reads that table or     *)
(* computes the rows live.                                                 *)
(*                                                                         *)
(* Time is counted in minutes since midnight of day 0.  A rational number  *)
(* (growth_rate) is a pair <<numerator, denominator>> in lowest terms with *)
(* a positive denominator.                                                 *)
(***************************************************************************)
EXTENDS Integers, Sequences, FiniteSets, TLC

VARIABLES
    raw,              \* tweets_deduplicated JOIN tweet_topics: the raw dataset
    topic_evolution,  \* the persisted EvolutionBucket table (set of rows)
    pc,               \* per aggregator process: "idle", "loop", "read", "done", "failed"
    current_date,     \* per aggregator process: loop variable of compute_hourly_evolution
    end_date,         \* per aggregator process: end of the range being processed
    start_date,       \* per aggregator process: start of the range being processed
    results,          \* per aggregator process: rows fetched by the sub-window query
    before,           \* history: topic_evolution as it was when the run was invoked
    mode,             \* per aggregator process: how main resolved the range
    concurrent,       \* history: some run was invoked while another one was under way
    runs,             \* number of invocations so far
    windows,          \* history, per aggregator process: the sub-windows of its run so far
    refined,          \* the RefinedTopic table (topic_definitions_refined)
    author_topics,    \* the AuthorTopicStat table (author_topics)
    collections,      \* the tweet_collections table
    themes,           \* the themes table
    resp,             \* the response of the query being answered, [op |-> "none"] if none
    topic_definitions,\* the Topic table (topic_definitions)
    processing_log,   \* the topic_llm_processing_log table (sequence of entries)
    total_tokens,     \* TopicAnalyzer.total_tokens
    total_cost,       \* TopicAnalyzer.total_cost, in units of 10^-7 dollar
    step,             \* process_topics: "idle", "check", "batch", "single", "save", "done"
    args,             \* process_topics: its arguments mode, topic_ids, limit, dry_run
                      \* (and, as history, the RefinedTopic table when it was called)
    all_topics,       \* process_topics: the topics to process (sequence)
    batch_index,      \* process_topics: i, the index of the first topic of the batch, from 0
    pending,          \* topics of the batch still to go through analyze_single_topic
    refined_topics,   \* process_topics: the records returned for the batch (sequence)
    processed_count,  \* process_topics: records saved (or, in a dry run, accepted)
    failed_count,     \* process_topics: records skipped
    calls,            \* history: the service calls of the run and what came of them
    sent,             \* history: the batches that passed the cost check (sequence of i)
    halted            \* history: the run left its loop at the cost check

\* the state of the Topic Refinement Pipeline
pipeline == <<topic_definitions, processing_log, total_tokens, total_cost, step, args,
              all_topics, batch_index, pending, refined_topics, processed_count, failed_count,
              calls, sent, halted>>

vars == <<raw, topic_evolution, pc, current_date, end_date, start_date,
          results, before, mode, concurrent, runs, windows, refined, author_topics,
          collections, themes, resp, pipeline>>

\* the tables the aggregator neither reads nor writes, the query response, and
\* the refinement pipeline
others == <<refined, author_topics, collections, themes, resp, pipeline>>

\* the state of the aggregator processes
aggregator == <<raw, topic_evolution, pc, current_date, end_date, start_date,
                results, before, mode, concurrent, runs, windows>>

----------------------------------------------------------------------------
(* Program constants *)

MinutesPerHour == 60
HoursPerDay == 24
ViralThreshold == 1000
Outlier == -1
DefaultDays == 30
LiveLimit == 500
DefaultMinTweetCount == 5
DefaultLimit == 100
FullBatchSize == 5
QuickBatchSize == 20
TestBatchSize == 2
MinTopicSize == 100
MaxCostPerRun == 100000000
InputPrice == 25
OutputPrice == 100
RoundUnit == 1000
MaxNameWords == 5
PromptTopics == 10

DayMinutes == HoursPerDay * MinutesPerHour

(* Bounds of the model *)

NTopics == 5
NPosts == 3
MaxRuns == 2

Writers == {1, 2}
Authors == {"a1", "a2"}
TopicIds == {Outlier, 1}
Engagements == {50, 1500}
PostTimes == {DayMinutes - 60, DayMinutes, DayMinutes + 30}
Nows == {DayMinutes + 60}
\* datetime.now() of an evolution_trends call: on the hour, and a quarter past it
QueryNows == {DayMinutes + 60, DayMinutes + 75}
QueryHours == {1, 24}
QueryTopicIds == {{}, {1}}
QueryGrowthRates == {{}, {<<1, 2>>}}
QueryTopicId == {{}, {Outlier + 1}, {1}}
QueryMinTweetCounts == {DefaultMinTweetCount}
QueryLimits == {1, DefaultLimit}
QueryThemeIds == {{}, {1}, {9}}
QueryDates == {{}, {DayMinutes}}
ThemeCodes == {"t1", "t2"}
RefineArgs ==
    { [mode |-> "test", topic_ids |-> {}, limit |-> {}],
      [mode |-> "full", topic_ids |-> {}, limit |-> {}],
      [mode |-> "quick", topic_ids |-> {}, limit |-> {NTopics - 1}],
      [mode |-> "test", topic_ids |-> {<<2, NTopics + 1, 1>>}, limit |-> {}] }
Ranges == { <<0, DayMinutes + 60>>,
            <<30, DayMinutes + 60>>,
            <<0, DayMinutes + 30>>,
            <<DayMinutes, DayMinutes>>,
            <<DayMinutes + 60, DayMinutes>> }

----------------------------------------------------------------------------
(* Arithmetic helpers *)

Min(a, b) == IF a <= b THEN a ELSE b
Max(a, b) == IF a >= b THEN a ELSE b
Abs(a) == IF a < 0 THEN -a ELSE a

RECURSIVE GCD(_, _)
GCD(a, b) == IF b = 0 THEN a ELSE GCD(b, a % b)

\* n / d as a rational in lowest terms (d > 0)
Rat(n, d) == LET g == GCD(Abs(n), d) IN <<n \div g, d \div g>>
Zero == <<0, 1>>
RatGeq(x, y) == x[1] * y[2] >= y[1] * x[2]

\* SUM(t.total_engagement) over a set of joined rows
RECURSIVE SumEngagement(_)
SumEngagement(S) == IF S = {} THEN 0
                    ELSE LET x == CHOOSE y \in S : TRUE
                         IN x.total_engagement + SumEngagement(S \ {x})

\* DATE_TRUNC('hour', t)
DateTruncHour(t) == t - (t % MinutesPerHour)
\* EXTRACT(HOUR FROM t)
ExtractHour(t) == (t \div MinutesPerHour) % HoursPerDay

----------------------------------------------------------------------------
(* The raw dataset *)

\* posts are listed in a canonical order (tweet ids carry no meaning) and the
\* earliest post is by author a1 (author names carry no meaning)
PostLeq(p, q) ==
    \/ p.created_at < q.created_at
    \/ /\ p.created_at = q.created_at
       /\ \/ p.topic_id < q.topic_id
          \/ /\ p.topic_id = q.topic_id
             /\ \/ p.author_id = "a1" /\ q.author_id = "a2"
                \/ /\ p.author_id = q.author_id
                   /\ p.total_engagement <= q.total_engagement

\* the datasets of NPosts posts with authors A, engagements E and topics T
DatasetsOver(A, E, T) ==
    { { [tweet_id |-> i, author_id |-> f[i].author_id,
         created_at |-> f[i].created_at,
         total_engagement |-> f[i].total_engagement,
         topic_id |-> f[i].topic_id] : i \in 1..NPosts }
      : f \in { g \in [1..NPosts -> [author_id : A, created_at : PostTimes,
                                     total_engagement : E, topic_id : T]] :
                  /\ g[1].author_id = "a1"
                  /\ \A i \in 1..(NPosts - 1) : PostLeq(g[i], g[i + 1]) } }

Datasets == DatasetsOver(Authors, Engagements, TopicIds)

\* the datasets of the concurrent runs: one author, one engagement value
ConcDatasets == DatasetsOver({"a1"}, {50}, TopicIds)

----------------------------------------------------------------------------
(* compute_hourly_evolution: the sub-window query *)

\* FROM tweet_topics tt JOIN tweets_deduplicated t WHERE tt.topic_id != -1
\*   AND t.created_at >= lo AND t.created_at < hi
InWindow(lo, hi) ==
    { r \in raw : r.topic_id # Outlier /\ r.created_at >= lo /\ r.created_at < hi }

Members(S, topic, bucket) ==
    { r \in S : r.topic_id = topic /\ DateTruncHour(r.created_at) = bucket }

\* the hourly_stats CTE: one row per (topic_id, hour_bucket, hour)
hourly_stats(lo, hi) ==
    LET S == InWindow(lo, hi)
    IN { [topic_id |-> g[1],
          hour_bucket |-> g[2],
          hour |-> ExtractHour(g[2]),
          tweet_count |-> Cardinality({ r.tweet_id : r \in Members(S, g[1], g[2]) }),
          unique_authors |-> Cardinality({ r.author_id : r \in Members(S, g[1], g[2]) }),
          total_engagement |-> SumEngagement(Members(S, g[1], g[2])),
          viral_tweets |-> Cardinality({ r.tweet_id : r \in
                              { m \in Members(S, g[1], g[2]) :
                                  m.total_engagement > ViralThreshold } })]
         : g \in { <<r.topic_id, DateTruncHour(r.created_at)>> : r \in S } }

\* the NOT EXISTS of the new_authors CTE: no post of the same author under the
\* same topic before the start of this post's hour, in the whole history
FirstTime(r) ==
    ~ \E r2 \in raw : /\ r2.topic_id = r.topic_id
                      /\ r2.author_id = r.author_id
                      /\ r2.created_at < DateTruncHour(r.created_at)

\* a count of the first-time authors of the topic in the whole sub-window
new_author_count_Window(lo, hi, topic, bucket) ==
    Cardinality({ r.author_id : r \in
                    { m \in InWindow(lo, hi) : m.topic_id = topic /\ FirstTime(m) } })

\* new_authors CTE LEFT JOINed with COALESCE(new_author_count, 0)
new_author_count(lo, hi, topic, bucket) ==
    Cardinality({ r.author_id : r \in
                    { m \in Members(InWindow(lo, hi), topic, bucket) : FirstTime(m) } })

\* k.top_words[:10]
TopN == 10

Letters == <<"a", "b", "c", "d", "e", "f", "g", "h", "i", "j", "k", "l",
           "m", "n", "o", "p", "q", "r", "s", "t", "u", "v", "w", "x",
           "y", "z">>

Capitals == <<"A", "B", "C", "D", "E", "F", "G", "H", "I", "J", "K", "L",
            "M", "N", "O", "P", "Q", "R", "S", "T", "U", "V", "W", "X",
            "Y", "Z">>

Digits == <<"0", "1", "2", "3", "4", "5", "6", "7", "8", "9">>

\* the characters that '[^a-z0-9#@\s]' leaves in place, in byte order
Kept == <<" ", "#">> \o Digits \o <<"@">> \o Letters

\* t.text of the posts, as strings of characters (the text of tweet i is
\* SampleTexts[i], taken round the list again after its end)
SampleTexts ==
    << \* Arms Bank Camp Dams East Fuel Gaza Huts Iron Juba Wars wars!
       <<"A", "r", "m", "s", " ", "B", "a", "n", "k", " ", "C", "a",
         "m", "p", " ", "D", "a", "m", "s", " ", "E", "a", "s", "t",
         " ", "F", "u", "e", "l", " ", "G", "a", "z", "a", " ", "H",
         "u", "t", "s", " ", "I", "r", "o", "n", " ", "J", "u", "b",
         "a", " ", "W", "a", "r", "s", " ", "w", "a", "r", "s", "!">>,
       \* RT @user: Wars from https://t.co/x #Sudan aid
       <<"R", "T", " ", "@", "u", "s", "e", "r", ":", " ", "W", "a",
         "r", "s", " ", "f", "r", "o", "m", " ", "h", "t", "t", "p",
         "s", ":", "/", "/", "t", ".", "c", "o", "/", "x", " ", "#",
         "S", "u", "d", "a", "n", " ", "a", "i", "d">>,
       \* this war  wars (two spaces after war)
       <<"t", "h", "i", "s", " ", "w", "a", "r", " ", " ", "w", "a",
         "r", "s">> >>

TextOf(tweet_id) == SampleTexts[((tweet_id - 1) % Len(SampleTexts)) + 1]

\* lower(t.text)
lower(s) ==
    [k \in 1..Len(s) |->
        IF \E c \in 1..Len(Capitals) : Capitals[c] = s[k]
        THEN Letters[CHOOSE c \in 1..Len(Capitals) : Capitals[c] = s[k]]
        ELSE s[k]]

\* regexp_replace(s, '[^a-z0-9#@\s]', '', 'g')
regexp_replace(s) ==
    SelectSeq(s, LAMBDA c : \E k \in 1..Len(Kept) : Kept[k] = c)

\* string_to_array(s, ' '): the pieces between single spaces, empty ones included
RECURSIVE string_to_array(_)
string_to_array(s) ==
    IF \A k \in 1..Len(s) : s[k] # " "
    THEN << s >>
    ELSE LET k == CHOOSE n \in 1..Len(s) :
                      s[n] = " " /\ \A j \in 1..(n - 1) : s[j] # " "
         IN << SubSeq(s, 1, k - 1) >> \o string_to_array(SubSeq(s, k + 1, Len(s)))

\* a word as one string
RECURSIVE Join(_)
Join(w) == IF w = << >> THEN "" ELSE Head(w) \o Join(Tail(w))

\* word NOT IN ('http', 'https', 'that', ...)
StopWords ==
    { "http", "https", "that", "this", "with", "from", "have", "will", "been",
      "they", "their", "what", "when", "where" }

\* the rows of the LATERAL unnest that pass length(word) > 3 AND word NOT IN (...)
WordsOf ==
    [i \in 1..NPosts |->
        SelectSeq(string_to_array(regexp_replace(lower(TextOf(i)))),
                  LAMBDA w : Len(w) > 3 /\ Join(w) \notin StopWords)]

RankOf(c) == CHOOSE k \in 1..Len(Kept) : Kept[k] = c

\* ORDER BY word: a sorts before b, byte by byte
WordLess(a, b) ==
    \E k \in 1..(Len(a) + 1) :
        /\ k <= Len(b)
        /\ \A j \in 1..(k - 1) : a[j] = b[j]
        /\ k = Len(a) + 1 \/ RankOf(a[k]) < RankOf(b[k])

RECURSIVE SortWords(_)
SortWords(S) ==
    IF S = {} THEN << >>
    ELSE LET m == CHOOSE x \in S : \A y \in S : x = y \/ WordLess(x, y)
         IN << m >> \o SortWords(S \ {m})

\* every word of every post, in ORDER BY word order
Vocabulary ==
    SortWords(UNION { { WordsOf[i][k] : k \in 1..Len(WordsOf[i]) } : i \in 1..NPosts })

\* the keywords CTE for one (topic_id, hour_bucket):
\* ARRAY_AGG(DISTINCT word ORDER BY word) FILTER (WHERE word IS NOT NULL)
top_words(M) ==
    LET W == UNION { { WordsOf[r.tweet_id][k] : k \in 1..Len(WordsOf[r.tweet_id]) }
                     : r \in M }
        sorted == SelectSeq(Vocabulary, LAMBDA w : w \in W)
    IN [k \in 1..Len(sorted) |-> Join(sorted[k])]

\* CASE WHEN array_length(k.top_words, 1) > 0 THEN {'keywords': k.top_words[:10]}
\* ELSE '{}': the list under 'keywords', empty for '{}'
top_keywords(M) ==
    IF Len(top_words(M)) > 0
    THEN SubSeq(top_words(M), 1, Min(TopN, Len(top_words(M))))
    ELSE << >>

\* the previous_hour CTE, read from the persisted table
previous_hour(tbl, lo, hi) ==
    { [topic_id |-> e.topic_id,
       next_hour |-> e.date + MinutesPerHour,
       prev_count |-> e.tweet_count]
      : e \in { x \in tbl : x.date >= lo - MinutesPerHour /\ x.date < hi } }

\* CASE WHEN ph.prev_count > 0 THEN (tweet_count - prev_count)::float / prev_count ELSE 0
GrowthCase(count, prev) ==
    IF prev > 0 THEN Rat(count - prev, prev) ELSE Zero

\* the final SELECT: hourly_stats LEFT JOIN new_authors LEFT JOIN previous_hour
SubWindowRows(tbl, lo, hi) ==
    UNION { LET ph == { p \in previous_hour(tbl, lo, hi) :
                          p.topic_id = hs.topic_id /\ p.next_hour = hs.hour_bucket }
                base == [topic_id |-> hs.topic_id,
                         date |-> hs.hour_bucket,
                         hour |-> hs.hour,
                         tweet_count |-> hs.tweet_count,
                         unique_authors |-> hs.unique_authors,
                         new_authors |-> new_author_count(lo, hi, hs.topic_id, hs.hour_bucket),
                         top_keywords |->
                             top_keywords(Members(InWindow(lo, hi), hs.topic_id,
                                                  hs.hour_bucket)),
                         total_engagement |-> hs.total_engagement,
                         viral_tweets |-> hs.viral_tweets,
                         growth_rate |-> Zero]
            IN IF ph = {} THEN { base }
               ELSE { [base EXCEPT !.growth_rate = GrowthCase(hs.tweet_count, p.prev_count)]
                      : p \in ph }
          : hs \in hourly_stats(lo, hi) }

SameKey(a, b) == a.topic_id = b.topic_id /\ a.date = b.date /\ a.hour = b.hour

\* an insert that takes no notice of the rows already stored
Upsert_Append(tbl, rows) == tbl \cup rows

\* INSERT ... ON CONFLICT (topic_id, date, hour) DO UPDATE SET <every derived field>
Upsert(tbl, rows) ==
    { e \in tbl : ~ \E r \in rows : SameKey(e, r) } \cup rows

\* a batch end that is not cut at the end of the range
BatchEnd_Unclamped(cur, end) == cur + DayMinutes

\* batch_end = min(current_date + timedelta(days=1), end_date)
BatchEnd(cur, end) == Min(cur + DayMinutes, end)

\* compute_hourly_evolution run to completion on table tbl, as a function
RECURSIVE RunRange(_, _, _)
RunRange(tbl, cur, end) ==
    IF cur < end
    THEN RunRange(Upsert(tbl, SubWindowRows(tbl, cur, BatchEnd(cur, end))),
                  BatchEnd(cur, end), end)
    ELSE tbl

----------------------------------------------------------------------------
(* main: resolution of the date range *)

\* get_date_range: MIN and MAX created_at of the tweets that have an assignment
MinDate == CHOOSE t \in { r.created_at : r \in raw } :
              \A u \in { r.created_at : r \in raw } : t <= u
MaxDate == CHOOSE t \in { r.created_at : r \in raw } :
              \A u \in { r.created_at : r \in raw } : t >= u

\* get_last_processed_date: SELECT MAX(date) FROM topic_evolution
LastProcessedDate(tbl) == CHOOSE d \in { e.date : e \in tbl } :
                             \A u \in { e.date : e \in tbl } : d >= u

\* entry into compute_hourly_evolution(start, end) by process w
Enter(w, m, s, e) ==
    /\ pc[w] \in {"idle", "done", "failed"}
    /\ runs < MaxRuns
    /\ runs' = runs + 1
    /\ mode' = [mode EXCEPT ![w] = m]
    /\ concurrent' = (concurrent \/ \E v \in Writers \ {w} : pc[v] \in {"loop", "read"})
    /\ start_date' = [start_date EXCEPT ![w] = s]
    /\ end_date' = [end_date EXCEPT ![w] = e]
    /\ current_date' = [current_date EXCEPT ![w] = s]
    /\ before' = [before EXCEPT ![w] = topic_evolution]
    /\ windows' = [windows EXCEPT ![w] = << >>]
    /\ pc' = [pc EXCEPT ![w] = IF s < e THEN "loop" ELSE "done"]
    /\ UNCHANGED <<raw, topic_evolution, results, others>>

\* --from-date / --to-date (the compute_range of the specification)
InvokeRange(w) ==
    \E r \in Ranges : Enter(w, "range", r[1], r[2])

\* --incremental
InvokeIncremental(w) ==
    \E now \in Nows :
        Enter(w, "incremental",
              IF topic_evolution # {} THEN LastProcessedDate(topic_evolution)
              ELSE now - DefaultDays * DayMinutes,
              MaxDate)

\* default: the last --days days of data
InvokeBackfill(w) ==
    Enter(w, "backfill", Max(MinDate, MaxDate - DefaultDays * DayMinutes), MaxDate)

----------------------------------------------------------------------------
(* compute_hourly_evolution: one iteration of the daily loop *)

Advance(w) ==
    LET be == BatchEnd(current_date[w], end_date[w])
    IN /\ current_date' = [current_date EXCEPT ![w] = be]
       /\ windows' = [windows EXCEPT ![w] = Append(@, <<current_date[w], be>>)]
       /\ pc' = [pc EXCEPT ![w] = IF be < end_date[w] THEN "loop" ELSE "done"]

\* query, upsert and commit of one sub-window, nothing interleaved
SubWindow(w) ==
    /\ pc[w] = "loop"
    /\ topic_evolution' =
          Upsert(topic_evolution,
                 SubWindowRows(topic_evolution, current_date[w],
                               BatchEnd(current_date[w], end_date[w])))
    /\ Advance(w)
    /\ UNCHANGED <<raw, start_date, end_date, results, before, mode, concurrent, runs,
                   others>>

\* cur.execute(query); results = cur.fetchall()
ReadStep(w) ==
    /\ pc[w] = "loop"
    /\ results' = [results EXCEPT ![w] =
                      SubWindowRows(topic_evolution, current_date[w],
                                    BatchEnd(current_date[w], end_date[w]))]
    /\ pc' = [pc EXCEPT ![w] = "read"]
    /\ UNCHANGED <<raw, topic_evolution, current_date, start_date, end_date,
                   before, mode, concurrent, runs, windows, others>>

\* execute_values(cur, insert_query, values); self.conn.commit()
CommitStep(w) ==
    /\ pc[w] = "read"
    /\ topic_evolution' = Upsert(topic_evolution, results[w])
    /\ results' = [results EXCEPT ![w] = {}]
    /\ Advance(w)
    /\ UNCHANGED <<raw, start_date, end_date, before, mode, concurrent, runs, others>>

\* the query or the upsert raises: nothing of the sub-window is committed, main
\* prints the error, closes the connection and exits with status 1
Fail(w) ==
    /\ pc[w] \in {"loop", "read"}
    /\ pc' = [pc EXCEPT ![w] = "failed"]
    /\ results' = [results EXCEPT ![w] = {}]
    /\ UNCHANGED <<raw, topic_evolution, current_date, start_date, end_date,
                   before, mode, concurrent, runs, windows, others>>

NoResponse == [op |-> "none"]

----------------------------------------------------------------------------
(* Analytics Query Service: evolution_trends *)

\* refined_topics.get(id).refined_name if id in refined_topics else f"Topic {id}"
TopicName(id) ==
    IF \E t \in refined : t.topic_id = id
    THEN (CHOOSE t \in refined : t.topic_id = id).refined_name
    ELSE <<"Topic", id>>

\* an optional argument is the empty set (None) or a singleton
IsNone(opt) == opt = {}
Some(opt) == CHOOSE x \in opt : TRUE

\* ORDER BY date DESC, growth_rate DESC: r may come before q
MayPrecede(r, q) ==
    \/ r.date > q.date
    \/ r.date = q.date /\ RatGeq(r.growth_rate, q.growth_rate)

\* the orders in which the database may return the rows S under that ORDER BY
Ordered(S) ==
    { seq \in [1..Cardinality(S) -> S] :
        /\ \A i, j \in 1..Cardinality(S) : i # j => seq[i] # seq[j]
        /\ \A i, j \in 1..Cardinality(S) : i < j => MayPrecede(seq[i], seq[j]) }

\* a count that looks only at the buckets of the last day of the data
EvolutionCount_Recent == Cardinality({ e \in topic_evolution : e.date >= DayMinutes })

\* select(func.count()).select_from(TopicEvolution)
EvolutionCount == Cardinality(topic_evolution)

\* the persisted path: WHERE date >= cutoff [AND topic_id IN topic_ids]
\* [AND growth_rate >= min_growth_rate]
PersistedSelect(topic_ids, cutoff, min_growth_rate) ==
    { e \in topic_evolution :
        /\ e.date >= cutoff
        /\ (topic_ids # {} => e.topic_id \in topic_ids)
        /\ (~IsNone(min_growth_rate) => RatGeq(e.growth_rate, Some(min_growth_rate))) }

PersistedRow(e) ==
    [topic_id |-> e.topic_id, topic_name |-> TopicName(e.topic_id),
     date |-> e.date, hour |-> e.hour, tweet_count |-> e.tweet_count,
     unique_authors |-> e.unique_authors, new_authors |-> e.new_authors,
     total_engagement |-> e.total_engagement, viral_tweets |-> e.viral_tweets,
     growth_rate |-> e.growth_rate]

\* _compute_evolution_metrics, hourly_stats CTE: created_at >= cutoff, no upper end
LiveHourlyStats(topic_ids, cutoff) ==
    LET S == { r \in raw : /\ r.topic_id # Outlier
                           /\ r.created_at >= cutoff
                           /\ (topic_ids # {} => r.topic_id \in topic_ids) }
    IN { [topic_id |-> g[1],
          date |-> g[2],
          hour |-> ExtractHour(g[2]),
          tweet_count |-> Cardinality({ r.tweet_id : r \in Members(S, g[1], g[2]) }),
          unique_authors |-> Cardinality({ r.author_id : r \in Members(S, g[1], g[2]) }),
          total_engagement |-> SumEngagement(Members(S, g[1], g[2])),
          viral_tweets |-> Cardinality({ r.tweet_id : r \in
                              { m \in Members(S, g[1], g[2]) :
                                  m.total_engagement > ViralThreshold } })]
         : g \in { <<r.topic_id, DateTruncHour(r.created_at)>> : r \in S } }

\* LAG(tweet_count) OVER (PARTITION BY topic_id ORDER BY date): the tweet_count
\* of the row before hs in its topic, 0 standing for NULL
Lag(stats, hs) ==
    LET earlier == { x \in stats : x.topic_id = hs.topic_id /\ x.date < hs.date }
    IN IF earlier = {} THEN 0
       ELSE (CHOOSE x \in earlier : \A y \in earlier : y.date <= x.date).tweet_count

\* the with_growth CTE and the outer WHERE
LiveSelect(topic_ids, cutoff, min_growth_rate) ==
    LET stats == LiveHourlyStats(topic_ids, cutoff)
        grown == { [topic_id |-> hs.topic_id, topic_name |-> TopicName(hs.topic_id),
                    date |-> hs.date, hour |-> hs.hour,
                    tweet_count |-> hs.tweet_count,
                    unique_authors |-> hs.unique_authors,
                    total_engagement |-> hs.total_engagement,
                    viral_tweets |-> hs.viral_tweets,
                    growth_rate |-> GrowthCase(hs.tweet_count, Lag(stats, hs))]
                   : hs \in stats }
    IN { r \in grown :
           ~IsNone(min_growth_rate) => RatGeq(r.growth_rate, Some(min_growth_rate)) }

\* LIMIT 500
Limit(seq, n) == SubSeq(seq, 1, Min(Len(seq), n))

\* cutoff_date = datetime.now() - timedelta(hours=hours)
Cutoff(now, hours) == now - hours * MinutesPerHour

\* an evolution_trends that stores the buckets it computed live
EvolutionTrends_Caching ==
    \E topic_ids \in QueryTopicIds, hours \in QueryHours,
       min_growth_rate \in QueryGrowthRates, now \in QueryNows :
        /\ resp.op = "none"
        /\ EvolutionCount = 0
        /\ \E seq \in Ordered(LiveSelect(topic_ids, Cutoff(now, hours),
                                          min_growth_rate)) :
               resp' = [op |-> "evolution_trends", path |-> "live",
                        topic_ids |-> topic_ids, hours |-> hours,
                        min_growth_rate |-> min_growth_rate, now |-> now,
                        rows |-> Limit(seq, LiveLimit)]
        /\ topic_evolution' = { [k \in DOMAIN r \cup {"new_authors"} |->
                                    IF k = "new_authors" THEN 0 ELSE r[k]]
                                 : r \in LiveSelect(topic_ids, Cutoff(now, hours),
                                                    min_growth_rate) }
        /\ UNCHANGED <<raw, pc, current_date, end_date, start_date,
                       results, before, mode, concurrent, runs, windows, refined,
                       author_topics, collections, themes, pipeline>>

\* get_topic_evolution_trends(topic_ids, hours, min_growth_rate) called at time now
EvolutionTrends ==
    \E topic_ids \in QueryTopicIds, hours \in QueryHours,
       min_growth_rate \in QueryGrowthRates, now \in QueryNows :
        /\ resp.op = "none"
        /\ IF EvolutionCount = 0
           THEN \E seq \in Ordered(LiveSelect(topic_ids, Cutoff(now, hours),
                                              min_growth_rate)) :
                   resp' = [op |-> "evolution_trends", path |-> "live",
                            topic_ids |-> topic_ids, hours |-> hours,
                            min_growth_rate |-> min_growth_rate, now |-> now,
                            rows |-> Limit(seq, LiveLimit)]
           ELSE \E seq \in Ordered({ PersistedRow(e) : e \in
                                       PersistedSelect(topic_ids, Cutoff(now, hours),
                                                       min_growth_rate) }) :
                   resp' = [op |-> "evolution_trends", path |-> "persisted",
                            topic_ids |-> topic_ids, hours |-> hours,
                            min_growth_rate |-> min_growth_rate, now |-> now,
                            rows |-> seq]
        /\ UNCHANGED <<raw, topic_evolution, pc, current_date, end_date, start_date,
                       results, before, mode, concurrent, runs, windows, refined,
                       author_topics, collections, themes, pipeline>>

----------------------------------------------------------------------------
(* Analytics Query Service: author_expertise *)

RECURSIVE SumOver(_, _)
SumOver(S, field) ==
    IF S = {} THEN 0
    ELSE LET x == CHOOSE y \in S : TRUE
         IN x[field] + SumOver(S \ {x}, field)

\* the sequences that hold each element of S once
Orderings(S) ==
    { seq \in [1..Cardinality(S) -> S] :
        \A i, j \in 1..Cardinality(S) : i # j => seq[i] # seq[j] }

\* ORDER BY total_engagement DESC, tweet_count DESC
ExpertisePrecedes(r, q) ==
    \/ r.total_engagement > q.total_engagement
    \/ r.total_engagement = q.total_engagement /\ r.tweet_count >= q.tweet_count

\* WHERE tweet_count >= min_tweet_count [AND topic_id = topic_id]; a topic_id
\* of 0 is falsy in "if topic_id:" and filters nothing
ExpertiseSelect(topic_id, min_tweet_count) ==
    { at \in author_topics :
        /\ at.tweet_count >= min_tweet_count
        /\ ((~IsNone(topic_id) /\ Some(topic_id) # 0) => at.topic_id = Some(topic_id)) }

ExpertiseRow(at) ==
    [author_id |-> at.author_id, topic_id |-> at.topic_id,
     topic_name |-> TopicName(at.topic_id), tweet_count |-> at.tweet_count,
     total_engagement |-> at.total_engagement]

\* get_author_expertise(topic_id, min_tweet_count, limit)
AuthorExpertise ==
    \E topic_id \in QueryTopicId, min_tweet_count \in QueryMinTweetCounts,
       limit \in QueryLimits :
        /\ resp.op = "none"
        /\ \E seq \in { o \in Orderings(ExpertiseSelect(topic_id, min_tweet_count)) :
                          \A i, j \in 1..Len(o) : i < j => ExpertisePrecedes(o[i], o[j]) } :
               resp' = [op |-> "author_expertise", topic_id |-> topic_id,
                        min_tweet_count |-> min_tweet_count, limit |-> limit,
                        rows |-> [i \in 1..Min(Len(seq), limit) |-> ExpertiseRow(seq[i])]]
        /\ UNCHANGED <<raw, topic_evolution, pc, current_date, end_date, start_date,
                       results, before, mode, concurrent, runs, windows, refined,
                       author_topics, collections, themes, pipeline>>

----------------------------------------------------------------------------
(* Analytics Query Service: theme_topic_breakdown *)

\* TweetCollection JOIN TweetTopic JOIN Tweet on tweet_id, outliers excluded,
\* with the optional theme and date filters
ThemeJoin(theme_id, start_date_opt, end_date_opt) ==
    LET theme == IF ~IsNone(theme_id) /\ Some(theme_id) # 0
                 THEN { t \in themes : t.id = Some(theme_id) }
                 ELSE {}
    IN { [theme_name |-> c.theme_name, topic_id |-> r.topic_id,
          tweet_id |-> r.tweet_id, author_id |-> r.author_id]
         : <<c, r>> \in
             { cr \in collections \X raw :
                 /\ cr[1].tweet_id = cr[2].tweet_id
                 /\ cr[2].topic_id # Outlier
                 /\ (theme # {} => \E t \in theme : cr[1].theme_code = t.code)
                 /\ (~IsNone(start_date_opt) => cr[2].created_at >= Some(start_date_opt))
                 /\ (~IsNone(end_date_opt) => cr[2].created_at <= Some(end_date_opt)) } }

\* GROUP BY theme_name, topic_id, each group enriched from refined_topics
TopicInfos(joined, theme_name) ==
    { [topic_id |-> k,
       refined_name |-> TopicName(k),
       monitoring_priority |->
           IF \E t \in refined : t.topic_id = k
           THEN (CHOOSE t \in refined : t.topic_id = k).monitoring_priority
           ELSE "medium",
       tweet_count |-> Cardinality({ j.tweet_id : j \in
                          { x \in joined : x.theme_name = theme_name /\ x.topic_id = k } }),
       unique_authors |-> Cardinality({ j.author_id : j \in
                          { x \in joined : x.theme_name = theme_name /\ x.topic_id = k } })]
      : k \in { x.topic_id : x \in { y \in joined : y.theme_name = theme_name } } }

\* the topics of a theme left in the order the database returned them
TopicOrders_Unsorted(infos) == Orderings(infos)

\* topics.sort(key=tweet_count, reverse=True) over rows the database returns in any order
TopicOrders(infos) ==
    { o \in Orderings(infos) :
        \A i, j \in 1..Len(o) : i < j => o[i].tweet_count >= o[j].tweet_count }

\* get_topic_theme_analytics(theme_id, start_date, end_date)
ThemeTopicBreakdown ==
    \E theme_id \in QueryThemeIds, sd \in QueryDates, ed \in QueryDates :
        LET joined == ThemeJoin(theme_id, sd, ed)
            names == { j.theme_name : j \in joined }
        IN /\ resp.op = "none"
           /\ \E ord \in [names -> UNION { TopicOrders(TopicInfos(joined, n)) : n \in names }] :
                 /\ \A n \in names : ord[n] \in TopicOrders(TopicInfos(joined, n))
                 /\ resp' = [op |-> "theme_topic_breakdown", theme_id |-> theme_id,
                             start_date |-> sd, end_date |-> ed,
                             analytics |->
                               [n \in names |->
                                 [theme_name |-> n,
                                  topics |-> ord[n],
                                  total_tweets |-> SumOver(TopicInfos(joined, n), "tweet_count"),
                                  total_authors |-> SumOver(TopicInfos(joined, n), "unique_authors")]]]
           /\ UNCHANGED <<raw, topic_evolution, pc, current_date, end_date, start_date,
                          results, before, mode, concurrent, runs, windows, refined,
                          author_topics, collections, themes, pipeline>>

----------------------------------------------------------------------------
\* the response is handed to the caller; nothing is retained between calls
Return ==
    /\ resp.op # "none"
    /\ resp' = NoResponse
    /\ UNCHANGED <<raw, topic_evolution, pc, current_date, end_date, start_date,
                   results, before, mode, concurrent, runs, windows, refined,
                   author_topics, collections, themes, pipeline>>

\* the aggregation of the lookback window of a query: compute_range(now - hours, now)
InvokeWindow(w) ==
    \E now \in Nows, hours \in QueryHours :
        Enter(w, "range", Cutoff(now, hours), now)

----------------------------------------------------------------------------
(* Topic Refinement Pipeline: configuration, database and analyzer *)

\* PROCESSING_MODES[mode]['batch_size']
BatchSizeOf(m) ==
    CASE m = "full" -> FullBatchSize
      [] m = "quick" -> QuickBatchSize
      [] m = "test" -> TestBatchSize

\* a topic name is the sequence of its words and of the separators between them
Separators == {"_", " "}

\* the topic_definitions rows: topics 1..NTopics by descending size, the outlier
\* topic, and topic 0, smaller than MIN_TOPIC_SIZE
TopicDefinitions ==
    { [topic_id |-> k,
       topic_name |-> <<"t", "_", "sudan", "_", "war", " ", "aid", "_", "gold", "_", "rsf">>,
       topic_size |-> MinTopicSize + 10 * (NTopics - k)] : k \in 1..NTopics }
    \cup { [topic_id |-> Outlier, topic_name |-> <<"outliers">>,
            topic_size |-> MinTopicSize + 10 * NTopics],
           [topic_id |-> Outlier + 1, topic_name |-> <<"0", "_", "sport">>,
            topic_size |-> MinTopicSize - 1] }

\* ORDER BY td.topic_size DESC
RECURSIVE BySizeDesc(_)
BySizeDesc(S) ==
    IF S = {} THEN <<>>
    ELSE LET m == CHOOSE x \in S : \A y \in S : y.topic_size <= x.topic_size
         IN <<m>> \o BySizeDesc(S \ {m})

\* a selection that does not look at the refined table
get_unprocessed_topics_NoJoin(min_size) ==
    BySizeDesc({ td \in topic_definitions :
                   /\ td.topic_id # Outlier
                   /\ td.topic_size >= min_size })

\* TopicDatabase.get_unprocessed_topics(min_size)
get_unprocessed_topics(min_size) ==
    BySizeDesc({ td \in topic_definitions :
                   /\ ~\E tdr \in refined : tdr.topic_id = td.topic_id
                   /\ td.topic_id # Outlier
                   /\ td.topic_size >= min_size })

\* TopicDatabase.get_topic_by_id for each id of topic_ids, the ids not found skipped
RECURSIVE TopicsById(_)
TopicsById(ids) ==
    IF ids = <<>> THEN <<>>
    ELSE (IF \E td \in topic_definitions : td.topic_id = Head(ids)
          THEN <<CHOOSE td \in topic_definitions : td.topic_id = Head(ids)>>
          ELSE <<>>) \o TopicsById(Tail(ids))

\* seq[:n]
Take(seq, n) == SubSeq(seq, 1, Min(Len(seq), n))

\* (prompt_tokens / 1_000_000) * 2.50 + (completion_tokens / 1_000_000) * 10.00,
\* in units of 10^-7 dollar
CostOf(usage) ==
    InputPrice * usage.prompt_tokens + OutputPrice * usage.completion_tokens

\* round(x, 4) of x = n / d units: the multiple of 10^-4 dollar nearest to x,
\* the even one of two equally near
Round4(n, d) ==
    LET q == n \div (RoundUnit * d)
        r == n % (RoundUnit * d)
    IN IF 2 * r > RoundUnit * d \/ (2 * r = RoundUnit * d /\ q % 2 = 1)
       THEN RoundUnit * (q + 1)
       ELSE RoundUnit * q

\* topic_name.replace('_', ' ').split()[:5], joined with one space
CleanName(topic_name) ==
    Take(SelectSeq(topic_name, LAMBDA w : w \notin Separators), MaxNameWords)

\* a fallback that keeps the raw name and calls for a review at medium priority
get_fallback_response_RawName(topic_data) ==
    [topic_id |-> topic_data.topic_id,
     refined_name |-> topic_data.topic_name,
     category |-> "Uncategorized",
     quality_score |-> <<1, 2>>,
     monitoring_priority |-> "medium",
     llm_model |-> "fallback",
     processing_metadata |-> [error |-> "LLM analysis failed, using fallback"]]

\* TopicAnalyzer._get_fallback_response(topic_data)
get_fallback_response(topic_data) ==
    [topic_id |-> topic_data.topic_id,
     refined_name |-> CleanName(topic_data.topic_name),
     category |-> "Uncategorized",
     quality_score |-> <<1, 2>>,
     monitoring_priority |-> "low",
     llm_model |-> "fallback",
     processing_metadata |-> [error |-> "LLM analysis failed, using fallback"]]

\* what the service writes about a topic when it answers as asked
Answer(topic_data) ==
    [refined_name |-> <<"refined", topic_data.topic_id>>,
     category |-> "Economic",
     quality_score |-> <<3, 4>>,
     monitoring_priority |-> "high",
     llm_model |-> "gpt"]

\* the same record with one more key
With(rec, key, val) ==
    [k \in DOMAIN rec \cup {key} |-> IF k = key THEN val ELSE rec[k]]

\* response.usage of a service call
Cheap == [prompt_tokens |-> 100, completion_tokens |-> 10, total_tokens |-> 110]
Expensive == [prompt_tokens |-> 2000000, completion_tokens |-> 10000,
              total_tokens |-> 2010000]

\* what the service may do with a single-topic request: raise, or answer with
\* content that is not JSON, or with the record asked for, the topic's id under
\* the key topic_id or under the key id
SingleOutcomes ==
    { [kind |-> "raise"] }
    \cup { [kind |-> "malformed", usage |-> Cheap] }
    \cup { [kind |-> "ok", usage |-> Cheap, key |-> "topic_id"] }
    \cup { [kind |-> "ok", usage |-> Cheap, key |-> "id"] }

\* what the service may do with a batch request: raise, or answer with content
\* that is not JSON, with {"topics": [...]} covering all or only the first of the
\* topics asked for, under the key topic_id or id, with a single record under
\* the key id or the key topic_id, or with an object of another shape
BatchOutcomes ==
    { [kind |-> "raise"] }
    \cup { [kind |-> "malformed", usage |-> Expensive] }
    \cup { [kind |-> "topics", usage |-> u, key |-> "topic_id", covered |-> "all"]
             : u \in {Cheap, Expensive} }
    \cup { [kind |-> "topics", usage |-> Cheap, key |-> "id", covered |-> "first"],
           [kind |-> "dict", usage |-> Cheap, key |-> "id"],
           [kind |-> "dict", usage |-> Cheap, key |-> "topic_id"],
           [kind |-> "other", usage |-> Cheap] }

\* the service's call returned a response (it did not raise)
Returned(o) == o.kind # "raise"

\* the call reached the lines that add its usage to total_tokens and total_cost
Tracked(o) == o.kind \notin {"raise", "malformed"}

\* TopicAnalyzer.analyze_single_topic(topic_data, themes): the record returned
analyze_single_topic(topic_data, o) ==
    CASE o.kind \in {"raise", "malformed"} -> get_fallback_response(topic_data)
      [] o.kind = "ok" ->
           LET result == With(Answer(topic_data), o.key, topic_data.topic_id)
           IN With(result, "processing_metadata",
                   [tokens_used |-> o.usage.total_tokens,
                    cost_usd |-> Round4(CostOf(o.usage), 1)])

\* the topics the batch prompt names: topics[:10]
PromptOf(topics) == Take(topics, PromptTopics)

\* json.loads of the content of a batch response: a JSON object
BatchResult(topics, o) ==
    CASE o.kind = "topics" ->
           LET asked == PromptOf(topics)
               n == IF o.covered = "all" THEN Len(asked) ELSE 1
           IN [topics |-> [k \in 1..n |->
                             With(Answer(asked[k]), o.key, asked[k].topic_id)]]
      [] o.kind = "dict" -> With(Answer(topics[1]), o.key, topics[1].topic_id)
      [] o.kind = "other" -> [error |-> "no analysis"]

\* the branch on the shape of the result (a JSON object is never a list)
BatchItems(topics, o) ==
    LET result == BatchResult(topics, o)
    IN IF "topics" \in DOMAIN result THEN result.topics
       ELSE IF "id" \in DOMAIN result THEN << result >>
       ELSE << >>

\* analyze_batch, lines 127-139: 'id' mapped to 'topic_id', processing_metadata set
BatchRecord(topic, topics, usage) ==
    LET keyed == IF "id" \in DOMAIN topic /\ "topic_id" \notin DOMAIN topic
                 THEN With(topic, "topic_id", topic.id)
                 ELSE topic
    IN With(keyed, "processing_metadata",
            [batch_size |-> Len(topics),
             tokens_per_topic |-> usage.total_tokens \div Len(topics),
             cost_per_topic |-> Round4(CostOf(usage), Len(topics))])

\* TopicAnalyzer.analyze_batch(topics, themes) when the call and the parsing succeed
analyze_batch(topics, o) ==
    LET items == BatchItems(topics, o)
    IN [k \in 1..Len(items) |-> BatchRecord(items[k], topics, o.usage)]

----------------------------------------------------------------------------
(* Topic Refinement Pipeline: process_topics *)

\* what the pipeline never writes
outside == <<aggregator, author_topics, collections, themes, resp, topic_definitions>>

\* all_topics[i:i + batch_size]
Batch ==
    SubSeq(all_topics, batch_index + 1,
           Min(batch_index + BatchSizeOf(args.mode), Len(all_topics)))

\* process_topics(mode, topic_ids, limit, dry_run) up to the batch loop
StartRun ==
    \E a \in RefineArgs, dry \in BOOLEAN :
        LET m == a.mode
            ids == a.topic_ids
            lim == a.limit
            found == IF ~IsNone(ids) /\ Some(ids) # <<>>
                     THEN TopicsById(Some(ids))
                     ELSE get_unprocessed_topics(MinTopicSize)
            topics == IF ~IsNone(lim) /\ Some(lim) # 0
                      THEN Take(found, Some(lim))
                      ELSE found
        IN /\ step = "idle"
           /\ args' = [mode |-> m, topic_ids |-> ids, limit |-> lim, dry_run |-> dry,
                       refined_before |-> refined]
           /\ all_topics' = topics
           /\ batch_index' = 0
           /\ step' = IF topics = <<>> THEN "empty" ELSE "check"
           /\ UNCHANGED <<outside, refined, processing_log, total_tokens, total_cost,
                          pending, refined_topics, processed_count, failed_count,
                          calls, sent, halted>>

\* a limit test that looks at the tokens instead of the cost
CostLimitReached_Tokens == total_tokens >= MaxCostPerRun

\* if analyzer.total_cost >= MAX_COST_PER_RUN
CostLimitReached == total_cost >= MaxCostPerRun

\* the head of the loop: no batch is left, or the cost limit is reached, or the
\* batch goes to analyze_batch or, topic by topic, to analyze_single_topic
CheckCost ==
    /\ step = "check"
    /\ IF batch_index >= Len(all_topics)
       THEN /\ step' = "done"
            /\ UNCHANGED <<sent, halted, pending, refined_topics>>
       ELSE IF CostLimitReached
       THEN /\ step' = "done"
            /\ halted' = TRUE
            /\ UNCHANGED <<sent, pending, refined_topics>>
       ELSE /\ sent' = Append(sent, batch_index)
            /\ refined_topics' = <<>>
            /\ halted' = halted
            /\ IF Len(Batch) > 1 /\ BatchSizeOf(args.mode) > 1
               THEN step' = "batch" /\ pending' = <<>>
               ELSE step' = "single" /\ pending' = Batch
    /\ UNCHANGED <<outside, refined, processing_log, total_tokens, total_cost, args,
                   all_topics, batch_index, processed_count, failed_count, calls>>

\* analyzer.analyze_batch(batch, themes): one service call; when it raises or
\* its content does not parse, every topic of the batch goes to analyze_single_topic
BatchCall ==
    \E o \in BatchOutcomes :
        /\ step = "batch"
        /\ calls' = Append(calls, [api |-> "batch", outcome |-> o, topics |-> Batch])
        /\ IF Tracked(o)
           THEN /\ total_tokens' = total_tokens + o.usage.total_tokens
                /\ total_cost' = total_cost + CostOf(o.usage)
                /\ refined_topics' = analyze_batch(Batch, o)
                /\ pending' = <<>>
                /\ step' = "save"
           ELSE /\ UNCHANGED <<total_tokens, total_cost, refined_topics>>
                /\ pending' = Batch
                /\ step' = "single"
        /\ UNCHANGED <<outside, refined, processing_log, args, all_topics, batch_index,
                       processed_count, failed_count, sent, halted>>

\* analyzer.analyze_single_topic(topic, themes) for the next topic of the batch
SingleCall ==
    \E o \in SingleOutcomes :
        /\ step = "single"
        /\ calls' = Append(calls, [api |-> "single", outcome |-> o,
                                   topic |-> Head(pending),
                                   record |-> analyze_single_topic(Head(pending), o)])
        /\ IF Tracked(o)
           THEN /\ total_tokens' = total_tokens + o.usage.total_tokens
                /\ total_cost' = total_cost + CostOf(o.usage)
           ELSE UNCHANGED <<total_tokens, total_cost>>
        /\ refined_topics' = Append(refined_topics, analyze_single_topic(Head(pending), o))
        /\ pending' = Tail(pending)
        /\ step' = IF Tail(pending) = <<>> THEN "save" ELSE "single"
        /\ UNCHANGED <<outside, refined, processing_log, args, all_topics, batch_index,
                       processed_count, failed_count, sent, halted>>

\* the records of refined_topics that carry a topic_id and are saved
Saved(recs) == SelectSeq(recs, LAMBDA r : "topic_id" \in DOMAIN r)

\* the row that save_refined_topic writes for record r at time now
RefinedRow(r, now) ==
    [topic_id |-> r.topic_id, refined_name |-> r.refined_name,
     category |-> r.category, monitoring_priority |-> r.monitoring_priority,
     processed_at |-> now]

\* an insert that leaves the row of a topic already refined as it is
save_refined_topic_DoNothing(tbl, r, now) ==
    IF \E x \in tbl : x.topic_id = r.topic_id THEN tbl
    ELSE tbl \cup { RefinedRow(r, now) }

\* TopicDatabase.save_refined_topic: INSERT ... ON CONFLICT (topic_id) DO UPDATE
\* SET <every field>, processed_at = NOW()
save_refined_topic(tbl, r, now) ==
    { x \in tbl : x.topic_id # r.topic_id } \cup { RefinedRow(r, now) }

\* save_refined_topic for each record in turn, each in its own transaction
RECURSIVE SaveAll(_, _, _)
SaveAll(tbl, recs, now) ==
    IF recs = <<>> THEN tbl
    ELSE SaveAll(save_refined_topic(tbl, Head(recs), now), Tail(recs), now + 1)

\* NOW() as a logical time: the number of saves committed so far, each of which
\* is followed by its row of the processing log
Clock == Len(processing_log)

\* processing_metadata.get(key, 0)
MetadataGet(r, key) ==
    IF key \in DOMAIN r.processing_metadata THEN r.processing_metadata[key] ELSE 0

\* TopicDatabase.log_processing for a saved record
LogEntry(r) ==
    [topic_id |-> r.topic_id,
     tokens_used |-> MetadataGet(r, "tokens_used"),
     cost_usd |-> MetadataGet(r, "cost_usd")]

\* the "Save results" loop over refined_topics, then the next batch
SaveResults ==
    /\ step = "save"
    /\ failed_count' = failed_count + Len(refined_topics) - Len(Saved(refined_topics))
    /\ processed_count' = processed_count + Len(Saved(refined_topics))
    /\ IF args.dry_run
       THEN UNCHANGED <<refined, processing_log>>
       ELSE /\ refined' = SaveAll(refined, Saved(refined_topics), Clock + 1)
            /\ processing_log' =
                 processing_log \o [k \in 1..Len(Saved(refined_topics)) |->
                                      LogEntry(Saved(refined_topics)[k])]
    /\ batch_index' = batch_index + BatchSizeOf(args.mode)
    /\ step' = "check"
    /\ UNCHANGED <<outside, total_tokens, total_cost, args, all_topics, pending,
                   refined_topics, calls, sent, halted>>

----------------------------------------------------------------------------
(* Specifications *)

\* no refinement run has been started
PipelineIdle ==
    /\ processing_log = <<>>
    /\ total_tokens = 0
    /\ total_cost = 0
    /\ step = "idle"
    /\ args = [mode |-> "none"]
    /\ all_topics = <<>>
    /\ batch_index = 0
    /\ pending = <<>>
    /\ refined_topics = <<>>
    /\ processed_count = 0
    /\ failed_count = 0
    /\ calls = <<>>
    /\ sent = <<>>
    /\ halted = FALSE

InitTables(D, R, A, C, T) ==
    /\ raw \in D
    /\ refined \in R
    /\ author_topics \in A
    /\ collections \in C
    /\ themes \in T
    /\ topic_evolution = {}
    /\ pc = [w \in Writers |-> "idle"]
    /\ current_date = [w \in Writers |-> 0]
    /\ end_date = [w \in Writers |-> 0]
    /\ start_date = [w \in Writers |-> 0]
    /\ results = [w \in Writers |-> {}]
    /\ before = [w \in Writers |-> {}]
    /\ mode = [w \in Writers |-> "none"]
    /\ concurrent = FALSE
    /\ runs = 0
    /\ windows = [w \in Writers |-> << >>]
    /\ resp = NoResponse
    /\ PipelineIdle

Init == InitTables(Datasets, {{}}, {{}}, {{}}, {{}}) /\ topic_definitions = {}
InitConc == InitTables(ConcDatasets, {{}}, {{}}, {{}}, {{}}) /\ topic_definitions = {}

\* one aggregator process, each sub-window atomic
Next ==
    \/ InvokeRange(1)
    \/ InvokeIncremental(1)
    \/ InvokeBackfill(1)
    \/ SubWindow(1)
    \/ Fail(1)

Spec == Init /\ [][Next]_vars

\* the same process over datasets picked for the loop and the rows it writes:
\* one author and one engagement value with outliers among the posts, or
\* two authors and two engagement values under one topic
LoopDatasets == ConcDatasets \cup DatasetsOver(Authors, Engagements, {1})

InitLoop == InitTables(LoopDatasets, {{}}, {{}}, {{}}, {{}}) /\ topic_definitions = {}

SpecLoop == InitLoop /\ [][Next]_vars

\* a run does not stop in the middle of its loop: an iteration that can be made
\* is made, unless the run fails (the sub-windows depend on neither the authors
\* nor the engagement of the posts)
FairLoop == InitConc /\ [][Next]_vars /\ WF_vars(SubWindow(1))

\* two aggregator processes (a backfill, an incremental or an explicit range each)
\* on their own connections: the query of a sub-window and its upsert-commit are
\* separate steps, and the steps of the two processes interleave
NextConc ==
    \E w \in Writers :
        \/ InvokeRange(w)
        \/ InvokeIncremental(w)
        \/ InvokeBackfill(w)
        \/ ReadStep(w)
        \/ CommitStep(w)

SpecConc == InitConc /\ [][NextConc]_vars

\* the query service beside one aggregator process; a query is answered from
\* the tables as they are when it is called
RefinedSample ==
    { [topic_id |-> 1, refined_name |-> <<"earlier", 1>>, category |-> "cat-1",
       monitoring_priority |-> "high", processed_at |-> 0] }

QueryDatasets == DatasetsOver({"a1"}, {50}, {Outlier, 1, 2})

ThemeSample == { [id |-> 1, code |-> "t1"], [id |-> 2, code |-> "t2"] }

\* author_topics rows, keyed by (author_id, topic_id)
AuthorTopicSets ==
    { S \in SUBSET [author_id : Authors, topic_id : {Outlier, Outlier + 1, 1},
                    tweet_count : {DefaultMinTweetCount - 1, DefaultMinTweetCount},
                    total_engagement : Engagements] :
        /\ Cardinality(S) <= 2
        /\ \A x, y \in S : (x.author_id = y.author_id /\ x.topic_id = y.topic_id) => x = y }

\* the posts that a collection job has picked up so far
CollectedIds == 1..2

\* tweet_collections rows, keyed by (tweet_id, theme_code)
CollectionSets ==
    { S \in SUBSET { [tweet_id |-> i, theme_code |-> c, theme_name |-> <<"Theme", c>>]
                       : i \in CollectedIds, c \in ThemeCodes } :
        Cardinality(S) <= 2 }

\* datasets whose posts all have one of two topics
TwoTopicDatasets == DatasetsOver({"a1"}, {50}, {1, 2})

\* every post collected under the first theme
FullCollection ==
    { [tweet_id |-> i, theme_code |-> "t1", theme_name |-> <<"Theme", "t1">>]
        : i \in 1..NPosts }

InitQuery ==
    /\ topic_definitions = {}
    /\ \/ InitTables(QueryDatasets, {RefinedSample}, {{}}, {{}}, {ThemeSample})
       \/ InitTables({{}}, {RefinedSample}, AuthorTopicSets, {{}}, {ThemeSample})
       \/ InitTables(ConcDatasets, {RefinedSample}, {{}}, CollectionSets, {ThemeSample})
       \/ InitTables(TwoTopicDatasets, {RefinedSample}, {{}}, {FullCollection},
                     {ThemeSample})

NextQuery ==
    \/ resp.op = "none" /\ InvokeWindow(1)
    \/ resp.op = "none" /\ SubWindow(1)
    \/ EvolutionTrends
    \/ AuthorExpertise
    \/ ThemeTopicBreakdown
    \/ Return

SpecQuery == InitQuery /\ [][NextQuery]_vars

\* one refinement run over the topic_definitions table, some topics already refined
InitRefine ==
    /\ InitTables({{}}, {{}, RefinedSample}, {{}}, {{}}, {ThemeSample})
    /\ topic_definitions = TopicDefinitions

NextRefine ==
    \/ StartRun
    \/ CheckCost
    \/ BatchCall
    \/ SingleCall
    \/ SaveResults

SpecRefine == InitRefine /\ [][NextRefine]_vars

----------------------------------------------------------------------------
(* What the raw data say, independently of any run *)

\* the non-outlier posts of topic T created in the clock hour starting at h
PostsOf(T, h) ==
    { r \in raw : r.topic_id = T /\ r.topic_id # Outlier
                  /\ DateTruncHour(r.created_at) = h }

RawCount(T, h) == Cardinality({ r.tweet_id : r \in PostsOf(T, h) })

\* the authors whose first post ever under T falls in the hour starting at h
FirstAuthors(T, h) ==
    { a \in Authors :
        /\ \E r \in PostsOf(T, h) : r.author_id = a
        /\ ~ \E r \in raw : r.topic_id = T /\ r.author_id = a /\ r.created_at < h }

RealTopics == TopicIds \ {Outlier}
Hours == { DateTruncHour(t) : t \in PostTimes }

\* the clock hour [h, h + 1h) lies inside the range [s, e)
HourInside(h, s, e) == s <= h /\ h + MinutesPerHour <= e

Bucket(tbl, T, h) == { x \in tbl : x.topic_id = T /\ x.date = h }

Completed(w) == pc[w] = "done" /\ runs > 0

----------------------------------------------------------------------------
(* Properties of the Bucket Aggregator *)

\* C1 (as claimed): when compute_range(start, end) has completed, running it a
\* second time over the same raw data leaves every row of the table as the first
\* run stored it
C1_Idempotent ==
    Completed(1) =>
        RunRange(topic_evolution, start_date[1], end_date[1]) = topic_evolution

\* C2 (as claimed): after compute_range(start, end) has completed, each bucket of
\* an hour h such that h and the hour before it lie inside the range carries
\* growth_rate = (tweet_count - prev) / prev, prev being the number of posts of
\* the topic in the hour before h, and 0 when prev is 0
C2_GrowthRate ==
    Completed(1) =>
        \A T \in RealTopics : \A h \in Hours :
            (/\ HourInside(h, start_date[1], end_date[1])
             /\ HourInside(h - MinutesPerHour, start_date[1], end_date[1]))
            => \A x \in Bucket(topic_evolution, T, h) :
                  x.growth_rate =
                     IF RawCount(T, h - MinutesPerHour) > 0
                     THEN Rat(x.tweet_count - RawCount(T, h - MinutesPerHour),
                              RawCount(T, h - MinutesPerHour))
                     ELSE Zero

\* C3 (as claimed): after compute_range(start, end) has completed, every hour
\* inside the range that holds a post of a non-outlier topic has a bucket whose
\* tweet_count, unique_authors, total_engagement and viral_tweets are those of
\* the posts of that topic in that hour
C3_Aggregates ==
    Completed(1) =>
        \A T \in RealTopics : \A h \in Hours :
            (HourInside(h, start_date[1], end_date[1]) /\ PostsOf(T, h) # {})
            => /\ Bucket(topic_evolution, T, h) # {}
               /\ \A x \in Bucket(topic_evolution, T, h) :
                     /\ x.tweet_count = RawCount(T, h)
                     /\ x.unique_authors =
                           Cardinality({ r.author_id : r \in PostsOf(T, h) })
                     /\ x.total_engagement = SumEngagement(PostsOf(T, h))
                     /\ x.viral_tweets =
                           Cardinality({ r \in PostsOf(T, h) :
                                           r.total_engagement > ViralThreshold })

\* C5 (as claimed): after compute_range(start, end) has completed, the bucket of
\* every hour inside the range counts as new_authors exactly the authors whose
\* first post ever under the topic falls in that hour
C5_NewAuthors ==
    Completed(1) =>
        \A T \in RealTopics : \A h \in Hours :
            (HourInside(h, start_date[1], end_date[1]) /\ PostsOf(T, h) # {})
            => /\ Bucket(topic_evolution, T, h) # {}
               /\ \A x \in Bucket(topic_evolution, T, h) :
                     x.new_authors = Cardinality(FirstAuthors(T, h))

\* C7 (as claimed): when sub-window k fails, the table holds exactly what
\* sub-windows 1..k-1 committed, and running the same range again ends with the
\* table an uninterrupted run would have produced
C7_FailureAtomicRetry ==
    pc[1] = "failed" =>
        /\ topic_evolution = RunRange(before[1], start_date[1], current_date[1])
        /\ RunRange(topic_evolution, start_date[1], end_date[1])
             = RunRange(before[1], start_date[1], end_date[1])

\* C10 (as claimed): an incremental run over a non-empty store starts at the
\* max(date) persisted, leaves the buckets of earlier hours as they were, and
\* when it has completed every non-outlier post created at or after that date is
\* counted in the bucket of its hour
C10_Incremental ==
    (Completed(1) /\ mode[1] = "incremental" /\ before[1] # {}) =>
        /\ start_date[1] = LastProcessedDate(before[1])
        /\ \A x \in before[1] : x.date < start_date[1] => x \in topic_evolution
        /\ \A r \in raw :
              (r.topic_id # Outlier /\ r.created_at >= start_date[1])
              => /\ Bucket(topic_evolution, r.topic_id, DateTruncHour(r.created_at)) # {}
                 /\ \A x \in Bucket(topic_evolution, r.topic_id,
                                      DateTruncHour(r.created_at)) :
                       x.tweet_count = RawCount(r.topic_id, DateTruncHour(r.created_at))

\* C11 (as claimed): a default backfill on an empty store processes the range
\* from max(latest - 30 days, earliest) to the latest data timestamp, and when
\* it has completed every non-outlier post with a timestamp in that closed
\* range, the latest post included, is counted in a persisted bucket of its hour
C11_DefaultBackfill ==
    (Completed(1) /\ mode[1] = "backfill" /\ before[1] = {}) =>
        /\ start_date[1] = Max(MaxDate - DefaultDays * DayMinutes, MinDate)
        /\ end_date[1] = MaxDate
        /\ \A r \in raw :
              (/\ r.topic_id # Outlier
               /\ start_date[1] <= r.created_at
               /\ r.created_at <= end_date[1])
              => \E x \in Bucket(topic_evolution, r.topic_id,
                                  DateTruncHour(r.created_at)) :
                     x.tweet_count >= 1

----------------------------------------------------------------------------
(* Concurrent aggregator processes *)

BothCompleted == \A w \in Writers : pc[w] = "done"

RangesOverlap ==
    /\ start_date[1] < end_date[2]
    /\ start_date[2] < end_date[1]

\* C8 (as claimed): the rows a process reads for a sub-window are those it would
\* read with no other writer around, and when two concurrent runs over
\* overlapping ranges have completed the table is the one a single run over the
\* union of the ranges produces
C8_ConcurrentWriters ==
    /\ \A w \in Writers :
          pc[w] = "read" =>
              results[w] =
                 SubWindowRows(RunRange(before[w], start_date[w], current_date[w]),
                               current_date[w],
                               BatchEnd(current_date[w], end_date[w]))
    /\ (BothCompleted /\ concurrent /\ RangesOverlap) =>
          topic_evolution =
             RunRange({}, Min(start_date[1], start_date[2]),
                      Max(end_date[1], end_date[2]))

----------------------------------------------------------------------------
(* Properties of the Analytics Query Service *)

\* the (topic_id, hour, tweet_count, growth_rate) tuples of a sequence of rows
Tuples(rows) ==
    { <<rows[i].topic_id, rows[i].date, rows[i].tweet_count, rows[i].growth_rate>>
        : i \in 1..Len(rows) }

\* the pending response is an evolution_trends answer served from the table that
\* compute_range wrote, from an empty table, for the window of the query
PersistedForWindow ==
    /\ resp.op = "evolution_trends"
    /\ resp.path = "persisted"
    /\ Completed(1)
    /\ before[1] = {}
    /\ start_date[1] = resp.now - resp.hours * MinutesPerHour
    /\ end_date[1] = resp.now

\* C4 (as claimed): an assignment to topic -1 contributes to no output: no
\* persisted or live bucket has topic_id -1 or counts more than the posts
\* assigned to its topic, no author_expertise row has topic_id -1 and no topic
\* entry of theme_topic_breakdown has topic_id -1
C4_OutlierExclusion ==
    /\ \A e \in topic_evolution :
          e.topic_id # Outlier /\ e.tweet_count <= RawCount(e.topic_id, e.date)
    /\ resp.op = "evolution_trends" =>
          \A i \in 1..Len(resp.rows) :
              /\ resp.rows[i].topic_id # Outlier
              /\ resp.rows[i].tweet_count <= RawCount(resp.rows[i].topic_id, resp.rows[i].date)
    /\ resp.op = "author_expertise" =>
          \A i \in 1..Len(resp.rows) : resp.rows[i].topic_id # Outlier
    /\ resp.op = "theme_topic_breakdown" =>
          \A n \in DOMAIN resp.analytics :
              \A i \in 1..Len(resp.analytics[n].topics) :
                  resp.analytics[n].topics[i].topic_id # Outlier

\* C6 (as claimed): the evolution_trends call answered from the store that
\* compute_range filled for the lookback window returns the same
\* (topic_id, hour, tweet_count, growth_rate) tuples as the same call answered
\* by the live computation over the same raw data
C6_DualPathEquivalence ==
    PersistedForWindow =>
        \E seq \in Ordered(LiveSelect(resp.topic_ids,
                                      resp.now - resp.hours * MinutesPerHour,
                                      resp.min_growth_rate)) :
            Tuples(resp.rows) = Tuples(Limit(seq, LiveLimit))

\* the posts a live bucket of topic T at hour h counts for a lookback from cutoff
LivePosts(T, h, cutoff) ==
    { r \in raw : /\ r.topic_id = T
                  /\ DateTruncHour(r.created_at) = h
                  /\ r.created_at >= cutoff }

\* C9: evolution_trends answers from the live computation exactly when the
\* persisted store holds no row, and from the store in every other case: then
\* the rows are the stored buckets with date >= now - hours that pass the
\* optional topic and growth-rate filters, each once; an empty store yields the
\* buckets counted from the raw posts of the window (all of them while they
\* are no more than the live limit and no growth floor is asked for)
C9_DualPathBranch ==
    resp.op = "evolution_trends" =>
        LET cutoff == resp.now - resp.hours * MinutesPerHour
            rows == resp.rows
            passes(x) == /\ (resp.topic_ids # {} => x.topic_id \in resp.topic_ids)
                         /\ (resp.min_growth_rate # {} =>
                               \A m \in resp.min_growth_rate : RatGeq(x.growth_rate, m))
            wanted == { r \in raw : /\ r.topic_id # Outlier
                                    /\ r.created_at >= cutoff
                                    /\ (resp.topic_ids # {} =>
                                          r.topic_id \in resp.topic_ids) }
        IN /\ (resp.path = "live") <=> (topic_evolution = {})
           /\ resp.path \in {"live", "persisted"}
           /\ \A i, j \in 1..Len(rows) :
                 (rows[i].topic_id = rows[j].topic_id /\ rows[i].date = rows[j].date)
                     => i = j
           /\ resp.path = "persisted" =>
                 /\ \A i \in 1..Len(rows) :
                       \E e \in topic_evolution :
                           /\ e.date >= cutoff /\ passes(e)
                           /\ e.topic_id = rows[i].topic_id /\ e.date = rows[i].date
                           /\ e.tweet_count = rows[i].tweet_count
                           /\ e.growth_rate = rows[i].growth_rate
                           /\ e.new_authors = rows[i].new_authors
                 /\ \A e \in topic_evolution :
                       (e.date >= cutoff /\ passes(e)) =>
                           \E i \in 1..Len(rows) :
                               rows[i].topic_id = e.topic_id /\ rows[i].date = e.date
           /\ resp.path = "live" =>
                 /\ \A i \in 1..Len(rows) :
                       /\ passes(rows[i])
                       /\ LivePosts(rows[i].topic_id, rows[i].date, cutoff) # {}
                       /\ rows[i].tweet_count =
                             Cardinality({ r.tweet_id : r \in
                                 LivePosts(rows[i].topic_id, rows[i].date, cutoff) })
                 /\ (/\ resp.min_growth_rate = {}
                     /\ Cardinality({ <<r.topic_id, DateTruncHour(r.created_at)>>
                                        : r \in wanted }) <= LiveLimit) =>
                       \A r \in wanted :
                           \E i \in 1..Len(rows) :
                               /\ rows[i].topic_id = r.topic_id
                               /\ rows[i].date = DateTruncHour(r.created_at)

\* an empty store after a run that found nothing to persist, answered live with rows
C9_Witness_LiveFallback ==
    /\ resp.op = "evolution_trends"
    /\ resp.path = "live"
    /\ runs > 0
    /\ Len(resp.rows) > 0

\* a filled store answered from the store
C9_Witness_Persisted ==
    /\ resp.op = "evolution_trends"
    /\ resp.path = "persisted"
    /\ Len(resp.rows) > 0
    /\ Len(resp.rows) < Cardinality(topic_evolution)

----------------------------------------------------------------------------
(* Properties of the Topic Refinement Pipeline *)

\* the RefinedTopic rows of topic k in a table
RowsOf(tbl, k) == { x \in tbl : x.topic_id = k }

\* a batch has passed the cost check and none of its calls has been made yet
BatchStarting ==
    \/ step = "batch"
    \/ step = "single" /\ refined_topics = <<>> /\ pending = Batch

\* C12: a batch starts only while total_cost is below MAX_COST_PER_RUN; a run
\* that reaches the limit leaves the loop at the check and ends at its final
\* statistics; when not in a dry run the records a completed batch returned with
\* a topic_id are in the RefinedTopic table and counted as processed; the topics
\* of the batches not started keep the rows they had, none for unprocessed topics
C12_CostHalt ==
    /\ BatchStarting => total_cost < MaxCostPerRun
    /\ halted => /\ step = "done"
                 /\ total_cost >= MaxCostPerRun
                 /\ batch_index < Len(all_topics)
                 /\ Len(sent) * BatchSizeOf(args.mode) = batch_index
    /\ (step \in {"check", "done"} /\ ~args.dry_run) =>
          /\ \A k \in 1..Len(refined_topics) :
                "topic_id" \in DOMAIN refined_topics[k] =>
                    \E x \in refined :
                        /\ x.topic_id = refined_topics[k].topic_id
                        /\ x.refined_name = refined_topics[k].refined_name
          /\ processed_count = Len(processing_log)
    /\ step \in {"check", "batch", "single", "save", "done"} =>
          \A k \in 1..Len(all_topics) :
              k > batch_index + BatchSizeOf(args.mode) \/ (halted /\ k > batch_index)
                  => /\ RowsOf(refined, all_topics[k].topic_id)
                          = RowsOf(args.refined_before, all_topics[k].topic_id)
                     /\ (IsNone(args.topic_ids) =>
                            RowsOf(refined, all_topics[k].topic_id) = {})

\* two batches of 5.10 dollars each under the limit of 10 dollars: the third
\* batch is not sent and its topic has no RefinedTopic row
C12_Witness_HaltAfterTwo ==
    /\ halted
    /\ Len(sent) = 2
    /\ ~args.dry_run
    /\ Cardinality(refined) = 4
    /\ RowsOf(refined, all_topics[Len(all_topics)].topic_id) = {}

\* the batch went to analyze_batch and refined_topics is what it returned
BatchAnalyzed ==
    /\ step = "save"
    /\ Len(Batch) > 1
    /\ BatchSizeOf(args.mode) > 1

\* C13 (as claimed): analyze_batch returns one record per input topic, each with
\* the topic_id of a distinct input topic, whatever the service answered: the
\* topics a malformed, partial or unrecognised answer does not cover get their
\* record from analyze_single
C13_OneRecordPerTopic ==
    BatchAnalyzed =>
        /\ Len(refined_topics) = Len(Batch)
        /\ \A k \in 1..Len(refined_topics) : "topic_id" \in DOMAIN refined_topics[k]
        /\ \A k \in 1..Len(Batch) :
              \E j \in 1..Len(refined_topics) :
                  /\ "topic_id" \in DOMAIN refined_topics[j]
                  /\ refined_topics[j].topic_id = Batch[k].topic_id

\* the single-topic calls of the run whose service call raised or whose content
\* did not parse
FailedSingles ==
    { k \in 1..Len(calls) : /\ calls[k].api = "single"
                            /\ calls[k].outcome.kind \in {"raise", "malformed"} }

\* name is made of the words of topic_name, separators left out, in their
\* order, as many of them as the limit allows
DerivedName(name, topic_name) ==
    LET words == { k \in 1..Len(topic_name) : topic_name[k] \notin Separators }
        rank(k) == Cardinality({ j \in words : j <= k })
    IN /\ Len(name) = Min(Cardinality(words), MaxNameWords)
       /\ \A k \in words : rank(k) <= MaxNameWords => name[rank(k)] = topic_name[k]

\* every service call of the run so far raised
Outage == calls # <<>> /\ \A k \in 1..Len(calls) : calls[k].outcome.kind = "raise"

\* C14: analyze_single returns, for a call that raised or whose content did not
\* parse, the fallback record of its topic: the topic's topic_id, a name made of
\* the first words of the raw name, category "Uncategorized", quality_score 0.5
\* and monitoring_priority "low", the same record whenever the topic is the
\* same; in a service outage the records of a batch are the fallback records of
\* its topics, and the run is never stuck before its final statistics
C14_SingleNeverFails ==
    /\ \A k \in FailedSingles :
          /\ calls[k].record.topic_id = calls[k].topic.topic_id
          /\ DerivedName(calls[k].record.refined_name, calls[k].topic.topic_name)
          /\ calls[k].record.category = "Uncategorized"
          /\ calls[k].record.quality_score = <<1, 2>>
          /\ calls[k].record.monitoring_priority = "low"
          /\ \A j \in FailedSingles :
                calls[j].topic = calls[k].topic => calls[j].record = calls[k].record
    /\ (Outage /\ step = "save") =>
          /\ Len(refined_topics) = Len(Batch)
          /\ \A k \in 1..Len(Batch) :
                /\ refined_topics[k].topic_id = Batch[k].topic_id
                /\ refined_topics[k].category = "Uncategorized"
    /\ (Outage /\ step = "done") => failed_count = 0 /\ processed_count = Len(all_topics)
    /\ step = "check" => ENABLED CheckCost
    /\ step = "batch" => ENABLED BatchCall
    /\ step = "single" => ENABLED SingleCall
    /\ step = "save" => ENABLED SaveResults

\* a run that met only an outage has reached its final statistics with a
\* fallback row saved for every topic
C14_Witness_Outage ==
    /\ Outage
    /\ step = "done"
    /\ Len(calls) > Len(all_topics)
    /\ ~args.dry_run
    /\ \A k \in 1..Len(all_topics) :
          \E x \in refined : /\ x.topic_id = all_topics[k].topic_id
                             /\ x.category = "Uncategorized"
                             /\ x.monitoring_priority = "low"

\* the tokens and the cost of the service calls, among the first n of the run,
\* that returned a response
RECURSIVE BilledTokens(_)
BilledTokens(n) ==
    IF n = 0 THEN 0
    ELSE BilledTokens(n - 1)
         + (IF Returned(calls[n].outcome) THEN calls[n].outcome.usage.total_tokens ELSE 0)

RECURSIVE BilledCost(_)
BilledCost(n) ==
    IF n = 0 THEN 0
    ELSE BilledCost(n - 1)
         + (IF Returned(calls[n].outcome) THEN CostOf(calls[n].outcome.usage) ELSE 0)

\* C15 (as claimed): at every point of a run total_tokens and total_cost are the
\* sums of the tokens and of the cost of all the service calls that have
\* returned a response so far, those whose content did not parse included
C15_CostAccounting ==
    /\ total_tokens = BilledTokens(Len(calls))
    /\ total_cost = BilledCost(Len(calls))

\* the tokens and the cost the analyzer attributed to a record: the per-topic
\* share of a batch call, the full amount of a single call, nothing for a fallback
AttributedTokens(r) ==
    IF "tokens_per_topic" \in DOMAIN r.processing_metadata
    THEN r.processing_metadata.tokens_per_topic
    ELSE IF "tokens_used" \in DOMAIN r.processing_metadata
    THEN r.processing_metadata.tokens_used
    ELSE 0

AttributedCost(r) ==
    IF "cost_per_topic" \in DOMAIN r.processing_metadata
    THEN r.processing_metadata.cost_per_topic
    ELSE IF "cost_usd" \in DOMAIN r.processing_metadata
    THEN r.processing_metadata.cost_usd
    ELSE 0

\* the records of the last batch have just been saved, not in a dry run
JustSaved ==
    /\ step \in {"check", "done"}
    /\ ~args.dry_run
    /\ Saved(refined_topics) # <<>>

\* C16 (as claimed): every record saved has appended one audit-log entry for its
\* topic_id whose tokens and cost are those the analyzer attributed to the
\* record, 0 only for a fallback record
C16_AuditLog ==
    JustSaved =>
        LET recs == Saved(refined_topics)
            base == Len(processing_log) - Len(recs)
        IN /\ base >= 0
           /\ \A k \in 1..Len(recs) :
                 /\ processing_log[base + k].topic_id = recs[k].topic_id
                 /\ processing_log[base + k].tokens_used = AttributedTokens(recs[k])
                 /\ processing_log[base + k].cost_usd = AttributedCost(recs[k])
                 /\ (processing_log[base + k].cost_usd = 0
                       => "error" \in DOMAIN recs[k].processing_metadata)

----------------------------------------------------------------------------
(* Properties of the Analytics Query Service: labels, filters, frame *)

\* the name and the priority a row about topic k is to show
LabelOf(k) ==
    IF RowsOf(refined, k) = {}
    THEN [name |-> <<"Topic", k>>, priority |-> "medium"]
    ELSE [name |-> (CHOOSE x \in RowsOf(refined, k) : TRUE).refined_name,
          priority |-> (CHOOSE x \in RowsOf(refined, k) : TRUE).monitoring_priority]

\* C17 (as claimed): every row about a topic returned by theme_topic_breakdown
\* and by author_expertise shows the refined name and priority of the topic, and
\* "Topic k" with priority "medium" when topic k has no RefinedTopic row
C17_FallbackLabeling ==
    /\ resp.op = "theme_topic_breakdown" =>
          \A n \in DOMAIN resp.analytics :
              \A k \in 1..Len(resp.analytics[n].topics) :
                  LET row == resp.analytics[n].topics[k]
                  IN /\ row.refined_name = LabelOf(row.topic_id).name
                     /\ row.monitoring_priority = LabelOf(row.topic_id).priority
    /\ resp.op = "author_expertise" =>
          \A k \in 1..Len(resp.rows) :
              LET row == resp.rows[k]
              IN /\ row.topic_name = LabelOf(row.topic_id).name
                 /\ "monitoring_priority" \in DOMAIN row
                 /\ row["monitoring_priority"] = LabelOf(row.topic_id).priority

\* C18 (as claimed): when author_expertise is given a topic_id, 0 included,
\* every row returned has that topic_id
C18_AuthorTopicFilter ==
    (resp.op = "author_expertise" /\ resp.topic_id # {}) =>
        \A k \in 1..Len(resp.rows) : resp.rows[k].topic_id \in resp.topic_id

\* C19 (as claimed): when theme_topic_breakdown is given a theme_id, every theme
\* group of the result is the group of the theme with that id, and there is no
\* group at all when no theme has that id
C19_ThemeFilter ==
    (resp.op = "theme_topic_breakdown" /\ resp.theme_id # {}) =>
        \A n \in DOMAIN resp.analytics :
            \E t \in themes : t.id \in resp.theme_id /\ n = <<"Theme", t.code>>

\* the persisted tables
tables == <<raw, topic_evolution, refined, author_topics, collections, themes,
            topic_definitions, processing_log>>

----------------------------------------------------------------------------
(* Properties of the Bucket Aggregator: keywords *)

\* the places <<tweet_id, k>> of the words of the texts of the posts P
WordPlaces(P) ==
    UNION { { <<r.tweet_id, k>> : k \in 1..Len(WordsOf[r.tweet_id]) } : r \in P }

\* how often word w occurs in the texts of the posts P
Occurrences(w, P) ==
    Cardinality({ x \in WordPlaces(P) : Join(WordsOf[x[1]][x[2]]) = w })

\* the words of the texts of the posts P
BucketWords(P) == { Join(WordsOf[x[1]][x[2]]) : x \in WordPlaces(P) }

\* C21: the top_keywords of a bucket row that covers its whole topic-hour are at
\* most TopN words, and no word of the hour's texts is left out in favour of a
\* word that occurs less often in them
C21_TopKeywords ==
    \A e \in topic_evolution :
        LET P == PostsOf(e.topic_id, e.date)
            K == { e.top_keywords[k] : k \in 1..Len(e.top_keywords) }
        IN e.tweet_count = Cardinality(P) =>
              /\ Len(e.top_keywords) <= TopN
              /\ \A v \in BucketWords(P) \ K : \A w \in K :
                     Occurrences(v, P) <= Occurrences(w, P)

----------------------------------------------------------------------------
(* Properties of the Topic Refinement Pipeline: ingest and store *)

\* the records that a parsed batch response carries, whatever its wrapper
RecordsIn(result) ==
    IF "topics" \in DOMAIN result THEN result.topics
    ELSE IF "id" \in DOMAIN result \/ "topic_id" \in DOMAIN result THEN << result >>
    ELSE << >>

\* the topic a record of the service is about
IdIn(r) == IF "topic_id" \in DOMAIN r THEN r.topic_id ELSE r.id

\* C22: every record of a parsed service response reaches the save loop with its
\* topic_id, whether the service wrote the id under topic_id or under id, whether
\* the response is one object or a {"topics": [...]} wrapper, and whether it
\* answers analyze_single_topic or analyze_batch
C22_KeyNormalization ==
    /\ \A k \in 1..Len(calls) :
          (calls[k].api = "single" /\ calls[k].outcome.kind = "ok") =>
              /\ "topic_id" \in DOMAIN calls[k].record
              /\ calls[k].record.topic_id = calls[k].topic.topic_id
    /\ (step = "save" /\ calls # << >> /\ calls[Len(calls)].api = "batch") =>
          LET c == calls[Len(calls)]
              carried == RecordsIn(BatchResult(c.topics, c.outcome))
          IN \A j \in 1..Len(carried) :
                 \E n \in 1..Len(refined_topics) :
                     /\ "topic_id" \in DOMAIN refined_topics[n]
                     /\ refined_topics[n].topic_id = IdIn(carried[j])

\* the last record of recs that is about topic t
LastFor(recs, t) ==
    recs[CHOOSE k \in 1..Len(recs) :
            /\ recs[k].topic_id = t
            /\ \A j \in (k + 1)..Len(recs) : recs[j].topic_id # t]

\* C23: the RefinedTopic table holds at most one row per topic_id; a save loop
\* leaves for every topic it saves the fields of the last record saved for it,
\* with a processed timestamp later than every timestamp of the table before,
\* and leaves the rows of all other topics as they were
C23_LastWriteWins ==
    /\ [](\A x, y \in refined : x.topic_id = y.topic_id => x = y)
    /\ [][(step = "save" /\ ~args.dry_run) =>
            LET recs == Saved(refined_topics)
                ids == { recs[k].topic_id : k \in 1..Len(recs) }
            IN /\ \A t \in ids :
                      \E x \in refined' :
                          /\ x.topic_id = t
                          /\ x.refined_name = LastFor(recs, t).refined_name
                          /\ x.category = LastFor(recs, t).category
                          /\ x.monitoring_priority = LastFor(recs, t).monitoring_priority
                          /\ \A old \in refined : x.processed_at > old.processed_at
               /\ { x \in refined' : x.topic_id \notin ids }
                    = { x \in refined : x.topic_id \notin ids }]_vars

\* a topic that had a row before the run was processed again, and its row now
\* holds the new record beside the untouched row of no other topic
C23_Witness_Reprocessed ==
    /\ step = "done"
    /\ ~args.dry_run
    /\ \E old \in args.refined_before :
          \E x \in refined :
              /\ x.topic_id = old.topic_id
              /\ x.refined_name # old.refined_name
              /\ x.processed_at > old.processed_at
    /\ Cardinality(refined) > 1

\* the raw topics that are not the outlier, have at least min_size posts and
\* have no RefinedTopic row
Unprocessed(min_size) ==
    { td \in topic_definitions :
        /\ td.topic_id # Outlier
        /\ td.topic_size >= min_size
        /\ RowsOf(refined, td.topic_id) = {} }

\* the topics whose record this run has saved
SavedIds == { processing_log[k].topic_id : k \in 1..Len(processing_log) }

\* C24: get_unprocessed_topics(min_size) lists exactly the unprocessed topics,
\* each once, by descending size; so it lists no topic whose record the run has
\* saved, and after a cost halt it lists every topic the run left over
C24_SelectUnprocessed ==
    LET sel == get_unprocessed_topics(MinTopicSize)
        listed == { sel[k] : k \in 1..Len(sel) }
    IN /\ listed = Unprocessed(MinTopicSize)
       /\ Len(sel) = Cardinality(listed)
       /\ \A k \in 1..(Len(sel) - 1) : sel[k].topic_size >= sel[k + 1].topic_size
       /\ \A td \in listed : td.topic_id \notin SavedIds
       /\ (step = "done" /\ halted /\ IsNone(args.topic_ids)) =>
             \A k \in (batch_index + 1)..Len(all_topics) : all_topics[k] \in listed

\* a run that saved the records of two batches was halted by the cost limit with
\* a topic left over, which the selection lists beside none of the saved topics
C24_Witness_LeftOver ==
    /\ step = "done"
    /\ halted
    /\ ~args.dry_run
    /\ IsNone(args.topic_ids)
    /\ batch_index < Len(all_topics)
    /\ Cardinality(SavedIds) = batch_index
    /\ Len(get_unprocessed_topics(MinTopicSize)) = Len(all_topics) - batch_index

----------------------------------------------------------------------------
(* Properties of the Analytics Query Service: shape and order of the results *)

\* the AuthorTopicStat rows that qualify for author_expertise(topic_id,
\* min_tweet_count): enough tweets and, when a topic is given, that topic
Qualifying(topic_id, min_tweet_count) ==
    { at \in author_topics :
        /\ at.tweet_count >= min_tweet_count
        /\ (~IsNone(topic_id) => at.topic_id = Some(topic_id)) }

\* r comes strictly before q under total_engagement desc, tweet_count desc
StrictlyBefore(r, q) ==
    \/ r.total_engagement > q.total_engagement
    \/ r.total_engagement = q.total_engagement /\ r.tweet_count > q.tweet_count

\* C25: the rows of author_expertise have tweet_count >= min_tweet_count, are
\* ordered by total_engagement descending and then tweet_count descending, are
\* at most limit, and are the first limit rows of that order over all
\* qualifying AuthorTopicStat rows
C25_ExpertiseShape ==
    resp.op = "author_expertise" =>
        LET Q == Qualifying(resp.topic_id, resp.min_tweet_count)
            n == Len(resp.rows)
        IN /\ \A k \in 1..n : resp.rows[k].tweet_count >= resp.min_tweet_count
           /\ \A i, j \in 1..n : i < j => ~StrictlyBefore(resp.rows[j], resp.rows[i])
           /\ n = Min(Cardinality(Q), resp.limit)
           /\ \A k \in 1..n : \E at \in Q : resp.rows[k] = ExpertiseRow(at)
           /\ \A at \in Q :
                 \/ \E k \in 1..n : resp.rows[k] = ExpertiseRow(at)
                 \/ \A k \in 1..n : ~StrictlyBefore(at, resp.rows[k])

\* the sum of field over the records of a sequence
RECURSIVE SeqSum(_, _)
SeqSum(seq, field) ==
    IF seq = << >> THEN 0 ELSE Head(seq)[field] + SeqSum(Tail(seq), field)

\* the collected posts of a theme name under a topic that pass the date filters
\* of the call answered in resp
ThemePosts(theme_name, topic) ==
    { r \in raw :
        /\ r.topic_id = topic
        /\ \E c \in collections : c.tweet_id = r.tweet_id /\ c.theme_name = theme_name
        /\ (~IsNone(resp.start_date) => r.created_at >= Some(resp.start_date))
        /\ (~IsNone(resp.end_date) => r.created_at <= Some(resp.end_date)) }

\* C26: theme_topic_breakdown returns one group per theme name; in a group each
\* topic appears once with the number of its collected posts, the topics are in
\* descending order of tweet_count, and total_tweets is the sum of their
\* tweet_count
C26_BreakdownGrouping ==
    resp.op = "theme_topic_breakdown" =>
        \A n \in DOMAIN resp.analytics :
            LET g == resp.analytics[n]
                len == Len(g.topics)
            IN /\ g.theme_name = n
               /\ len > 0
               /\ \A i, j \in 1..len : i # j => g.topics[i].topic_id # g.topics[j].topic_id
               /\ \A i, j \in 1..len :
                     i < j => g.topics[i].tweet_count >= g.topics[j].tweet_count
               /\ \A i \in 1..len :
                     g.topics[i].tweet_count
                       = Cardinality(ThemePosts(n, g.topics[i].topic_id))
               /\ g.total_tweets = SeqSum(g.topics, "tweet_count")

\* a theme with two topics of different size, and so a total of three posts
C26_Witness_TwoTopics ==
    /\ resp.op = "theme_topic_breakdown"
    /\ \E n \in DOMAIN resp.analytics :
          /\ Len(resp.analytics[n].topics) = 2
          /\ resp.analytics[n].topics[1].tweet_count
               > resp.analytics[n].topics[2].tweet_count
          /\ resp.analytics[n].total_tweets = 3

\* C27: on the persisted path and on the live path the rows of evolution_trends
\* are ordered by date descending and, within a date, by growth_rate descending,
\* and every row satisfies the filters of the call: date >= now - hours,
\* topic_id among topic_ids when given, growth_rate >= min_growth_rate when given
C27_TrendsOrderAndFilters ==
    resp.op = "evolution_trends" =>
        /\ \A i, j \in 1..Len(resp.rows) :
              i < j =>
                  \/ resp.rows[i].date > resp.rows[j].date
                  \/ /\ resp.rows[i].date = resp.rows[j].date
                     /\ RatGeq(resp.rows[i].growth_rate, resp.rows[j].growth_rate)
        /\ \A k \in 1..Len(resp.rows) :
              /\ resp.rows[k].date >= resp.now - resp.hours * MinutesPerHour
              /\ (resp.topic_ids # {} => resp.rows[k].topic_id \in resp.topic_ids)
              /\ (~IsNone(resp.min_growth_rate) =>
                     RatGeq(resp.rows[k].growth_rate, Some(resp.min_growth_rate)))

----------------------------------------------------------------------------
(* Properties of the Bucket Aggregator: keys, windows, sanity *)

\* C28: whatever runs have been made, completed or aborted, the EvolutionBucket
\* table holds at most one row per (topic_id, date, hour), date is on the hour
\* and hour is its hour of the day; and no step removes the row of a key
C28_BucketKey ==
    /\ [](\A e, f \in topic_evolution : SameKey(e, f) => e = f)
    /\ [](\A e \in topic_evolution :
             /\ e.date % MinutesPerHour = 0
             /\ e.hour = (e.date \div MinutesPerHour) % HoursPerDay
             /\ e.hour \in 0..(HoursPerDay - 1))
    /\ [][\A e \in topic_evolution : \E f \in topic_evolution' : SameKey(e, f)]_vars

\* a later run has overwritten in place a row that an earlier run committed
C28_Witness_Overwritten ==
    /\ runs = 2
    /\ \E e \in topic_evolution :
          \E b \in before[1] :
              SameKey(e, b) /\ e.tweet_count # b.tweet_count

\* the least whole number of b's that cover a
Ceil(a, b) == (a + b - 1) \div b

\* C29: the sub-windows of a run start at start, each ends a day after its
\* start or at end, whichever is earlier, and the next starts where it ends; a
\* completed run over start < end has made ceil((end - start) / 1 day) of them,
\* the last ending at end, so that each post of [start, end) is in exactly one;
\* over start >= end a run makes none and leaves the table as it was; and a run
\* in its loop comes to its end
C29_SubWindows ==
    /\ [](LET W == windows[1]
          IN /\ \A k \in 1..Len(W) :
                   /\ W[k][1] = (IF k = 1 THEN start_date[1] ELSE W[k - 1][2])
                   /\ W[k][2] = Min(W[k][1] + DayMinutes, end_date[1])
                   /\ W[k][1] < W[k][2]
             /\ (pc[1] = "done" /\ start_date[1] < end_date[1]) =>
                   /\ Len(W) = Ceil(end_date[1] - start_date[1], DayMinutes)
                   /\ W[Len(W)][2] = end_date[1]
                   /\ \A r \in raw :
                         (start_date[1] <= r.created_at /\ r.created_at < end_date[1]) =>
                             Cardinality({ k \in 1..Len(W) :
                                             /\ W[k][1] <= r.created_at
                                             /\ r.created_at < W[k][2] }) = 1
             /\ (pc[1] = "done" /\ start_date[1] >= end_date[1]) =>
                   /\ W = << >>
                   /\ topic_evolution = before[1])
    /\ (pc[1] = "loop") ~> (pc[1] \in {"done", "failed"})

\* a completed run of two sub-windows, the second shorter than a day, each
\* with a post of the range in it
C29_Witness_TwoWindows ==
    /\ pc[1] = "done"
    /\ Len(windows[1]) = 2
    /\ windows[1][2][2] - windows[1][2][1] < DayMinutes
    /\ \A k \in 1..2 :
          \E r \in raw : windows[1][k][1] <= r.created_at /\ r.created_at < windows[1][k][2]

\* C30: every row of the EvolutionBucket table has tweet_count >= 1,
\* 1 <= unique_authors <= tweet_count, 0 <= new_authors <= unique_authors,
\* 0 <= viral_tweets <= tweet_count and growth_rate >= -1, and is the row of a
\* topic-hour that has a post under a topic other than the outlier
C30_BucketSanity ==
    \A e \in topic_evolution :
        /\ e.tweet_count >= 1
        /\ 1 <= e.unique_authors /\ e.unique_authors <= e.tweet_count
        /\ 0 <= e.new_authors /\ e.new_authors <= e.unique_authors
        /\ 0 <= e.viral_tweets /\ e.viral_tweets <= e.tweet_count
        /\ RatGeq(e.growth_rate, Rat(-1, 1))
        /\ e.topic_id # Outlier
        /\ PostsOf(e.topic_id, e.date) # {}

\* the table holds a row of two posts by two authors, and the row of the hour
\* after it, which has shrunk and whose author is not new to the topic
C30_Witness_Shrunk ==
    \E e \in topic_evolution :
        /\ e.growth_rate[1] < 0
        /\ e.new_authors = 0
        /\ \E f \in topic_evolution :
              /\ f.tweet_count = 2
              /\ f.unique_authors = 2



====
